---- MODULE Spec2Model ----
(***************************************************************************)
(* A model of experiments/08_ingest_logft.py: the logft resolution engine. *)
(*                                                                         *)
(* Text is a sequence of one-character strings, so that str.strip,         *)
(* str.lower and the substring test `b in c` are computed, not assumed.    *)
(* Numbers are integers counting tenths (5.3 is 53, 80 percent is 800), so *)
(* that int() truncation, fraction*100 and float formatting are computed.  *)
(* A table cell as pandas holds it is a record [t, n, s]: a missing value  *)
(* (NaN), a float, or a str.                                               *)
(***************************************************************************)
EXTENDS Integers, Sequences, FiniteSets, TLC

VARIABLES
    pc,             \* position of main(): the next statement group to run
    exitCode,       \* what main() returned or raised ("none" while running)
    force,          \* args.force
    require_complete, \* args.require_complete
    betaFile,       \* the file args.beta on disk: [exists, cols, rows] (text)
    logftDir,       \* the directory args.logft_dir: [exists, files]
    overridesFile,  \* the file args.overrides on disk: [exists, cols, rows]
    auditFile,      \* the file args.audit_out on disk: [exists, rows]
    beta,           \* the DataFrame `beta` in memory (a sequence of rows)
    candidates,     \* the DataFrame `candidates` (normalized)
    overrides,      \* the DataFrame `overrides` (normalized)
    audit_rows,     \* the list audit_rows
    i,              \* the number of primary rows the loop has processed
    h               \* history of the run: what was on disk at its start,
                    \* which rows were resolved, what the run has written

vars == <<pc, exitCode, force, require_complete, betaFile, logftDir,
          overridesFile, auditFile, beta, candidates, overrides, audit_rows,
          i, h>>

---------------------------------------------------------------------------
(* Text *)

Txt_empty == <<>>
Txt_space == <<" ">>
Txt_nan == <<"n", "a", "n">>
Txt_betam == <<"b", "e", "t", "a", "-">>
Txt_betap == <<"b", "e", "t", "a", "+">>
Txt_ec == <<"e", "c">>
Txt_EC == <<"E", "C">>
Txt_beta == <<"b", "e", "t", "a">>
Txt_BETAm_padded == <<" ", "B", "E", "T", "A", "-", " ">>
Txt_ECbetap == <<"E", "C", "/", "b", "e", "t", "a", "+">>

UpperToLower ==
    ("A" :> "a") @@ ("B" :> "b") @@ ("C" :> "c") @@ ("E" :> "e") @@ ("T" :> "t")

\* str.lower()
Lower(s) ==
    [k \in 1..Len(s) |-> IF s[k] \in DOMAIN UpperToLower THEN UpperToLower[s[k]] ELSE s[k]]

RECURSIVE LStrip(_)
LStrip(s) == IF s # <<>> /\ Head(s) = " " THEN LStrip(Tail(s)) ELSE s

RECURSIVE RStrip(_)
RStrip(s) ==
    IF s # <<>> /\ s[Len(s)] = " " THEN RStrip(SubSeq(s, 1, Len(s) - 1)) ELSE s

\* str.strip()
Strip(s) == RStrip(LStrip(s))

\* Python's `b in c` for strings
IsSubstr(b, c) ==
    \E k \in 0..(Len(c) - Len(b)) : SubSeq(c, k + 1, k + Len(b)) = b

---------------------------------------------------------------------------
(* Numbers and their text *)

DigitVal ==
    ("0" :> 0) @@ ("1" :> 1) @@ ("2" :> 2) @@ ("3" :> 3) @@ ("4" :> 4) @@
    ("5" :> 5) @@ ("6" :> 6) @@ ("7" :> 7) @@ ("8" :> 8) @@ ("9" :> 9)

DigitChar == <<"0", "1", "2", "3", "4", "5", "6", "7", "8", "9">>

RECURSIVE NatToText(_)
NatToText(n) ==
    IF n < 10 THEN <<DigitChar[n + 1]>>
    ELSE NatToText(n \div 10) \o <<DigitChar[(n % 10) + 1]>>

RECURSIVE TextToNat(_)
TextToNat(s) ==
    IF s = <<>> THEN 0
    ELSE TextToNat(SubSeq(s, 1, Len(s) - 1)) * 10 + DigitVal[s[Len(s)]]

IsDigits(s) == s # <<>> /\ \A k \in 1..Len(s) : s[k] \in DOMAIN DigitVal

\* repr(float): what DataFrame.to_csv writes for a float (tenths: 53 -> "5.3")
FloatRepr(n) == NatToText(n \div 10) \o <<".">> \o <<DigitChar[(n % 10) + 1]>>

\* f"{x:.6g}": trailing zeros and a bare point are removed (800 -> "80")
Format6g(n) ==
    IF n % 10 = 0 THEN NatToText(n \div 10) ELSE FloatRepr(n)

\* the text parses as a number (as float() and the csv reader accept it)
IsNumText(s) ==
    LET t == Strip(s) IN
    \/ IsDigits(t)
    \/ /\ Len(t) >= 3
       /\ t[Len(t) - 1] = "."
       /\ IsDigits(SubSeq(t, 1, Len(t) - 2))
       /\ t[Len(t)] \in DOMAIN DigitVal

\* float(text), in tenths
ParseNum(s) ==
    LET t == Strip(s) IN
    IF IsDigits(t) THEN TextToNat(t) * 10
    ELSE TextToNat(SubSeq(t, 1, Len(t) - 2)) * 10 + DigitVal[t[Len(t)]]

---------------------------------------------------------------------------
(* Cells of a DataFrame *)

NaN == [t |-> "nan", n |-> 0, s |-> <<>>]
Num(n) == [t |-> "num", n |-> n, s |-> <<>>]
Int64(n) == [t |-> "int", n |-> n, s |-> <<>>]    \* a cell of an int64 column
Str(s) == [t |-> "str", n |-> 0, s |-> s]

\* pd.notna / pd.isna
notna(c) == c.t # "nan"
isna(c) == c.t = "nan"

\* str(cell)
str(c) ==
    CASE c.t = "nan" -> Txt_nan
      [] c.t = "num" -> FloatRepr(c.n)
      [] c.t = "int" -> NatToText(c.n \div 10)
      [] OTHER -> c.s

\* float(cell); only applied to cells that hold a number or a numeric text
float(c) == IF c.t \in {"num", "int"} THEN c.n ELSE ParseNum(c.s)

\* pd.to_numeric(column, errors="coerce"), cell by cell
to_numeric(c) ==
    CASE c.t = "num" -> c
      [] c.t = "str" /\ IsNumText(c.s) -> Num(ParseNum(c.s))
      [] OTHER -> NaN

---------------------------------------------------------------------------
(* The resolution engine *)

\* _mode_match_score without the compatibility rules of lines 249-255
_mode_match_score_noCompat(beta_mode, cand_mode) ==
    LET b == Lower(Strip(beta_mode))
        c == Lower(Strip(cand_mode))
    IN  IF b # Txt_empty /\ IsSubstr(b, c) THEN 2 ELSE 0

\* _mode_match_score with equality in place of the substring test of line 246
_mode_match_score_exact(beta_mode, cand_mode) ==
    LET b == Lower(Strip(beta_mode))
        c == Lower(Strip(cand_mode))
    IN  IF b = Txt_empty THEN 0
        ELSE IF b = c THEN 2
        ELSE IF b = Txt_ec /\ IsSubstr(Txt_ec, c) THEN 1
        ELSE IF b = Txt_betap /\ (IsSubstr(Txt_betap, c) \/ IsSubstr(Txt_ec, c)) THEN 1
        ELSE IF b = Txt_betam /\ IsSubstr(Txt_betam, c) THEN 1
        ELSE 0

\* _mode_match_score(beta_mode, cand_mode)
_mode_match_score(beta_mode, cand_mode) ==
    LET b == Lower(Strip(beta_mode))
        c == Lower(Strip(cand_mode))
    IN  IF b = Txt_empty THEN 0
        ELSE IF IsSubstr(b, c) /\ b # Txt_empty THEN 2
        ELSE IF b = Txt_ec /\ IsSubstr(Txt_ec, c) THEN 1
        ELSE IF b = Txt_betap /\ (IsSubstr(Txt_betap, c) \/ IsSubstr(Txt_ec, c)) THEN 1
        ELSE IF b = Txt_betam /\ IsSubstr(Txt_betam, c) THEN 1
        ELSE 0

\* lines 272 and 283 comparing Z alone
RowsOfKey_byZ(frame, Z, A) == SelectSeq(frame, LAMBDA r : r.Z = Z)

\* frame[(frame["Z"] == Z) & (frame["A"] == A)]: the rows of the key, in order
RowsOfKey(frame, Z, A) == SelectSeq(frame, LAMBDA r : r.Z = Z /\ r.A = A)

\* the provenance returned with an override row
OverrideResult(r) ==
    [logft |-> Num(r.logft), method |-> "override", source |-> r.source,
     cand_mode |-> r.mode, br_pct_used |-> Txt_empty, note |-> str(r.note)]

MissingResult ==
    [logft |-> NaN, method |-> "missing", source |-> Txt_empty,
     cand_mode |-> Txt_empty, br_pct_used |-> Txt_empty, note |-> Txt_empty]

\* line 309 leaving the percentage out
HighestBrResult_noPct(top) ==
    [logft |-> Num(top.logft), method |-> "candidate_highest_br",
     source |-> top.source, cand_mode |-> top.mode,
     br_pct_used |-> Txt_empty, note |-> Txt_empty]

\* lines 305-311
HighestBrResult(top) ==
    [logft |-> Num(top.logft), method |-> "candidate_highest_br",
     source |-> top.source, cand_mode |-> top.mode,
     br_pct_used |-> IF isna(top.br_pct) THEN Txt_empty ELSE Format6g(top.br_pct.n),
     note |-> Txt_empty]

MinLogftResult(top) ==
    [logft |-> Num(top.logft), method |-> "candidate_min_logft",
     source |-> top.source, cand_mode |-> top.mode,
     br_pct_used |-> Txt_empty, note |-> Txt_empty]

\* lines 294-296 left out: no candidate is dropped for its mode
ModeRetained_all(beta_mode, cands) == cands

\* cands[cands["mode_score"] == best_score] when best_score > 0
ModeRetained(beta_mode, cands) ==
    LET score(r) == _mode_match_score(beta_mode, r.mode)
        best_score == CHOOSE m \in {score(cands[k]) : k \in 1..Len(cands)} :
                         \A k \in 1..Len(cands) : score(cands[k]) <= m
    IN  IF best_score > 0 THEN SelectSeq(cands, LAMBDA r : score(r) = best_score)
        ELSE cands

\* line 303 sorting by _br_sort alone
BrSortsBefore_noLogft(a, b) ==
    \/ notna(a.br_pct) /\ isna(b.br_pct)
    \/ notna(a.br_pct) /\ notna(b.br_pct) /\ a.br_pct.n > b.br_pct.n

\* row a sorts strictly before row b under
\* sort_values(["_br_sort", "logft"], ascending=[False, True]); a missing
\* br_pct is -inf
BrSortsBefore(a, b) ==
    LET abr == a.br_pct
        bbr == b.br_pct
    IN  \/ notna(abr) /\ isna(bbr)
        \/ notna(abr) /\ notna(bbr) /\ abr.n > bbr.n
        \/ /\ (isna(abr) /\ isna(bbr)) \/ (notna(abr) /\ notna(bbr) /\ abr.n = bbr.n)
           /\ a.logft < b.logft

\* iloc[0] after the two-key sort: pandas sorts several keys with a stable
\* lexsort, so among rows equal on both keys the first in frame order is on top
TopByBr(cands) ==
    LET k == CHOOSE k \in 1..Len(cands) :
                 /\ \A j \in 1..Len(cands) : ~BrSortsBefore(cands[j], cands[k])
                 /\ \A j \in 1..(k - 1) : BrSortsBefore(cands[k], cands[j])
    IN  cands[k]

\* line 314 sorting descending
TopsByLogft_max(cands) ==
    {cands[k] : k \in {k \in 1..Len(cands) :
                          \A j \in 1..Len(cands) : cands[k].logft >= cands[j].logft}}

\* iloc[0] after sort_values(["logft"]): a single key is sorted with numpy's
\* default quicksort, which is not stable, so any row of minimal logft may be
\* on top
TopsByLogft(cands) ==
    {cands[k] : k \in {k \in 1..Len(cands) :
                          \A j \in 1..Len(cands) : cands[k].logft <= cands[j].logft}}

\* choose_logft_for_row taking the last override of the key, not the first
choose_logft_for_row_lastOverride(Z, A, beta_mode, cand_frame, ov_frame) ==
    LET ov == RowsOfKey(ov_frame, Z, A)
        cands0 == RowsOfKey(cand_frame, Z, A)
    IN  IF ov # <<>> THEN {OverrideResult(ov[Len(ov)])}
        ELSE IF cands0 = <<>> THEN {MissingResult}
        ELSE LET cands == ModeRetained(beta_mode, cands0)
                 has_br == \E k \in 1..Len(cands) : notna(cands[k].br_pct)
             IN  IF has_br THEN {HighestBrResult(TopByBr(cands))}
                 ELSE {MinLogftResult(top) : top \in TopsByLogft(cands)}

\* choose_logft_for_row(Z, A, beta_mode, candidates, overrides): the set of
\* results it can return (one result, except where the unstable sort decides)
choose_logft_for_row(Z, A, beta_mode, cand_frame, ov_frame) ==
    LET ov == RowsOfKey(ov_frame, Z, A)
        cands0 == RowsOfKey(cand_frame, Z, A)
    IN  IF ov # <<>> THEN {OverrideResult(ov[1])}
        ELSE IF cands0 = <<>> THEN {MissingResult}
        ELSE LET cands == ModeRetained(beta_mode, cands0)
                 has_br == \E k \in 1..Len(cands) : notna(cands[k].br_pct)
             IN  IF has_br THEN {HighestBrResult(TopByBr(cands))}
                 ELSE {MinLogftResult(top) : top \in TopsByLogft(cands)}

---------------------------------------------------------------------------
(* Reading and normalizing the sources *)

\* _read_csvs: the files of the directory in sorted path order (logftDir.files
\* is kept in that order), concatenated; a column one file lacks is NaN in
\* that file's rows; each row carries its file's path in __file__
ConcatRow(f, r) ==
    [Z |-> IF "Z" \in f.cols THEN r.Z ELSE NaN,
     A |-> IF "A" \in f.cols THEN r.A ELSE NaN,
     logft |-> IF "logft" \in f.cols THEN r.logft ELSE NaN,
     mode |-> IF "mode" \in f.cols THEN r.mode ELSE NaN,
     br_pct |-> IF "br_pct" \in f.cols THEN r.br_pct ELSE NaN,
     br |-> IF "br" \in f.cols THEN r.br ELSE NaN,
     source |-> IF "source" \in f.cols THEN r.source ELSE NaN,
     __file__ |-> f.path]

RECURSIVE ConcatRows(_)
ConcatRows(files) ==
    IF files = <<>> THEN <<>>
    ELSE [k \in 1..Len(files[1].rows) |-> ConcatRow(files[1], files[1].rows[k])]
         \o ConcatRows(Tail(files))

_read_csvs(files) ==
    IF files = <<>> THEN [cols |-> {}, rows |-> <<>>]
    ELSE [cols |-> UNION {files[k].cols : k \in 1..Len(files)} \cup {"__file__"},
          rows |-> ConcatRows(files)]

\* DataFrame.empty
empty(df) == df.rows = <<>> \/ df.cols = {}

\* a number that is not a whole number (tenths)
IsFractional(c) == c.t = "num" /\ c.n % 10 # 0

\* line 172 applied to every row with a known fraction
NormalizeCandidateRow_brFirst(cols, r) ==
    LET br_pct0 == IF "br_pct" \in cols THEN to_numeric(r.br_pct) ELSE NaN
        br == to_numeric(r.br)
        source0 == IF "source" \in cols THEN Strip(str(r.source)) ELSE Txt_empty
    IN  [Z |-> to_numeric(r.Z).n \div 10,
         A |-> to_numeric(r.A).n \div 10,
         logft |-> to_numeric(r.logft).n,
         mode |-> IF "mode" \in cols THEN Strip(str(r.mode)) ELSE Txt_empty,
         br_pct |-> IF "br" \in cols /\ notna(br) THEN Num(br.n * 100) ELSE br_pct0,
         source |-> IF source0 = Txt_empty THEN r.__file__ ELSE source0]

\* one row of _normalize_candidates, after the dropna
NormalizeCandidateRow(cols, r) ==
    LET br_pct0 == IF "br_pct" \in cols THEN to_numeric(r.br_pct) ELSE NaN
        br == to_numeric(r.br)
        source0 == IF "source" \in cols THEN Strip(str(r.source)) ELSE Txt_empty
    IN  [Z |-> to_numeric(r.Z).n \div 10,
         A |-> to_numeric(r.A).n \div 10,
         logft |-> to_numeric(r.logft).n,
         mode |-> IF "mode" \in cols THEN Strip(str(r.mode)) ELSE Txt_empty,
         br_pct |-> IF "br" \in cols /\ isna(br_pct0)
                    THEN (IF isna(br) THEN NaN ELSE Num(br.n * 100))
                    ELSE br_pct0,
         source |-> IF source0 = Txt_empty THEN r.__file__ ELSE source0]

\* dropna without logft in its subset
ParsesZAlogft_noLogft(r) ==
    notna(to_numeric(r.Z)) /\ notna(to_numeric(r.A))

\* the rows dropna(subset=["Z", "A", "logft"]) keeps
ParsesZAlogft(r) ==
    notna(to_numeric(r.Z)) /\ notna(to_numeric(r.A)) /\ notna(to_numeric(r.logft))

\* _normalize_candidates(df) for a non-empty df: the frame, or the exception
_normalize_candidates(df) ==
    IF ~({"Z", "A", "logft"} \subseteq df.cols)
    THEN [err |-> "RuntimeError", rows |-> <<>>]
    ELSE IF \E k \in 1..Len(df.rows) :
                IsFractional(to_numeric(df.rows[k].Z)) \/ IsFractional(to_numeric(df.rows[k].A))
    THEN [err |-> "TypeError", rows |-> <<>>]    \* astype("Int64") refuses 19.5
    ELSE LET kept == SelectSeq(df.rows, ParsesZAlogft)
         IN  [err |-> "none",
              rows |-> [k \in 1..Len(kept) |-> NormalizeCandidateRow(df.cols, kept[k])]]

NormalizeOverrideRow(file, r) ==
    LET source0 == IF "source" \in file.cols THEN Strip(str(r.source))
                   ELSE Strip(file.path)
    IN  [Z |-> to_numeric(r.Z).n \div 10,
         A |-> to_numeric(r.A).n \div 10,
         logft |-> to_numeric(r.logft).n,
         mode |-> IF "mode" \in file.cols THEN Strip(str(r.mode)) ELSE Txt_empty,
         source |-> IF source0 = Txt_empty THEN file.path ELSE source0,
         note |-> IF "note" \in file.cols THEN r.note ELSE Str(Txt_empty)]

\* _normalize_overrides(path): the frame, or the exception
_normalize_overrides(file) ==
    IF ~file.exists THEN [err |-> "none", rows |-> <<>>]
    ELSE IF ~({"Z", "A", "logft"} \subseteq file.cols)
    THEN [err |-> "RuntimeError", rows |-> <<>>]
    ELSE LET kept == SelectSeq(file.rows, ParsesZAlogft)
         IN  [err |-> "none",
              rows |-> [k \in 1..Len(kept) |-> NormalizeOverrideRow(file, kept[k])]]

---------------------------------------------------------------------------
(* The primary table on disk and in memory *)

\* the cell pd.read_csv makes of the field x of a column with these fields:
\* an empty field is NaN; the column is int64 when every field is a whole
\* number, float64 when every non-empty field parses as a number, and holds
\* the fields as str otherwise (a field of blanks is a str, not a missing
\* value)
ColumnCell(fields, x) ==
    IF x = Txt_empty THEN NaN
    ELSE IF \A f \in fields : IsDigits(f) THEN Int64(ParseNum(x))
    ELSE IF \A f \in fields : f = Txt_empty \/ IsNumText(f) THEN Num(ParseNum(x))
    ELSE Str(x)

\* to_csv writing an empty mode for every row
to_csv_noMode(frame, cols) ==
    [exists |-> TRUE, cols |-> cols \cup {"logft"},
     rows |-> [k \in 1..Len(frame) |->
                  [Z |-> frame[k].Z, A |-> frame[k].A, mode |-> Txt_empty,
                   tau_s |-> Txt_empty, logft |-> Txt_empty]]]

\* pd.read_csv(args.beta)
read_csv(file) ==
    LET fields(col) == {file.rows[k][col] : k \in 1..Len(file.rows)}
    IN  [k \in 1..Len(file.rows) |->
            [Z |-> file.rows[k].Z, A |-> file.rows[k].A,
             mode |-> IF file.rows[k].mode = Txt_empty THEN NaN ELSE Str(file.rows[k].mode),
             tau_s |-> IF "tau_s" \notin file.cols THEN NaN
                       ELSE ColumnCell(fields("tau_s"), file.rows[k].tau_s),
             logft |-> IF "logft" \notin file.cols THEN NaN
                       ELSE ColumnCell(fields("logft"), file.rows[k].logft)]]

\* the field DataFrame.to_csv writes for a cell
CsvField(c) ==
    CASE c.t = "nan" -> Txt_empty
      [] c.t = "num" -> FloatRepr(c.n)
      [] c.t = "int" -> NatToText(c.n \div 10)
      [] OTHER -> c.s

\* beta.to_csv(args.beta, index=False)
to_csv(frame, cols) ==
    [exists |-> TRUE, cols |-> cols \cup {"logft"},
     rows |-> [k \in 1..Len(frame) |->
                  [Z |-> frame[k].Z, A |-> frame[k].A,
                   mode |-> CsvField(frame[k].mode),
                   tau_s |-> CsvField(frame[k].tau_s),
                   logft |-> CsvField(frame[k].logft)]]]

\* has_cur = pd.notna(cur) and str(cur).strip() != ""
has_cur(cur) == notna(cur) /\ Strip(str(cur)) # Txt_empty

\* beta_mode = str(row.get("mode", "")).strip()
BetaMode(row) == Strip(str(row.mode))

RequiredBetaCols == {"Z", "A", "mode", "tau_s", "Q_mev"}

---------------------------------------------------------------------------
(* Inputs of a run *)

MaxRows == 2        \* primary rows in the table

SeqsUpTo(S, n) == UNION {[1..m -> S] : m \in 0..n}

Txt_53 == <<"5", ".", "3">>
Txt_5 == <<"5">>

AllBetaCols == {"Z", "A", "mode", "tau_s", "Q_mev", "logft"}

\* the rows of the primary table: (1,1) is a beta- nuclide, (2,1) has no mode
\* and is in no source; the logft field is empty, blank or 5.3
BetaRows ==
    {[Z |-> 1, A |-> 1, mode |-> Txt_betam, tau_s |-> Txt_53, logft |-> x] :
        x \in {Txt_empty, Txt_space, Txt_53}}
    \cup {[Z |-> 2, A |-> 1, mode |-> Txt_empty, tau_s |-> Txt_53, logft |-> x] :
             x \in {Txt_empty, Txt_space, Txt_53}}

BetaFiles ==
    {[exists |-> FALSE, cols |-> {}, rows |-> <<>>]}
    \cup {[exists |-> TRUE, cols |-> AllBetaCols, rows |-> rs] : rs \in SeqsUpTo(BetaRows, MaxRows)}
    \cup {[exists |-> TRUE, cols |-> AllBetaCols \ {"logft"}, rows |-> rs] :
             rs \in SeqsUpTo({r \in BetaRows : r.logft = Txt_empty}, MaxRows)}
    \cup {[exists |-> TRUE, cols |-> AllBetaCols \ {"tau_s"},
           rows |-> <<[Z |-> 1, A |-> 1, mode |-> Txt_betam, tau_s |-> Txt_empty,
                       logft |-> Txt_empty]>>]}

\* a raw source row
Raw(Z, A, logft, mode, br_pct, br, source, note) ==
    [Z |-> Z, A |-> A, logft |-> logft, mode |-> mode, br_pct |-> br_pct,
     br |-> br, source |-> source, note |-> note]

Path_a == <<"a", ".", "c", "s", "v">>
Path_b == <<"b", ".", "c", "s", "v">>
Path_ov == <<"o", "v", ".", "c", "s", "v">>
Txt_src == <<"s", "r", "c">>

File_br ==
    [path |-> Path_a, cols |-> {"Z", "A", "logft", "mode", "br_pct"},
     rows |-> <<Raw(Num(10), Num(10), Num(61), Str(Txt_EC), Num(200), NaN, NaN, NaN),
                Raw(Num(10), Num(10), Num(47), Str(Txt_betam), Num(800), NaN, NaN, NaN),
                Raw(Num(10), Num(20), Num(39), Str(Txt_betam), NaN, NaN, NaN, NaN)>>]

File_plain ==
    [path |-> Path_a, cols |-> {"Z", "A", "logft"},
     rows |-> <<Raw(Num(10), Num(10), Num(61), NaN, NaN, NaN, NaN, NaN),
                Raw(Str(<<"Z">>), Num(10), Num(30), NaN, NaN, NaN, NaN, NaN),
                Raw(Num(10), Num(10), Num(47), NaN, NaN, NaN, NaN, NaN)>>]

File_src ==
    [path |-> Path_b, cols |-> {"Z", "A", "logft", "mode", "br", "source"},
     rows |-> <<Raw(Num(10), Num(20), Num(39), Str(Txt_EC), NaN, Num(8), Str(Txt_src), NaN)>>]

File_header ==
    [path |-> Path_a, cols |-> {"Z", "A", "logft"}, rows |-> <<>>]

File_nologft ==
    [path |-> Path_a, cols |-> {"Z", "A", "mode"},
     rows |-> <<Raw(Num(10), Num(10), NaN, Str(Txt_betam), NaN, NaN, NaN, NaN)>>]

LogftDirs ==
    {[exists |-> FALSE, files |-> <<>>],
     [exists |-> TRUE, files |-> <<>>],
     [exists |-> TRUE, files |-> <<File_header>>],
     [exists |-> TRUE, files |-> <<File_nologft>>],
     [exists |-> TRUE, files |-> <<File_br>>],
     [exists |-> TRUE, files |-> <<File_plain, File_src>>]}

OverridesFiles ==
    {[exists |-> FALSE, path |-> Path_ov, cols |-> {}, rows |-> <<>>],
     [exists |-> TRUE, path |-> Path_ov, cols |-> {"Z", "A"},
      rows |-> <<Raw(Num(10), Num(10), NaN, NaN, NaN, NaN, NaN, NaN)>>],
     [exists |-> TRUE, path |-> Path_ov, cols |-> {"Z", "A", "logft"}, rows |-> <<>>],
     [exists |-> TRUE, path |-> Path_ov, cols |-> {"Z", "A", "logft", "mode", "note"},
      rows |-> <<Raw(Num(10), Num(10), Num(44), Str(Txt_EC), NaN, NaN, NaN, Str(Txt_src)),
                 Raw(Num(10), Num(10), Num(40), NaN, NaN, NaN, NaN, NaN),
                 Raw(Num(10), Num(20), Num(35), NaN, NaN, NaN, NaN, NaN)>>]}

NoFile == [exists |-> FALSE, rows |-> <<>>]

\* the history of a run: the primary file as the run found it, the rows
\* choose_logft_for_row was called for, the rows whose logft was assigned
\* (line 406, in order), the directories the run created, the files it wrote
\* (in order), and whether the run repeats the
\* run before it (no --force in either, sources unchanged, table written)
NewHistory(start, repeat) ==
    [start |-> start, resolved |-> {}, assigned |-> <<>>, created |-> {},
     wrote |-> <<>>, repeat |-> repeat]

Init ==
    /\ pc = "check_beta"
    /\ exitCode = "none"
    /\ force \in BOOLEAN
    /\ require_complete \in BOOLEAN
    /\ betaFile \in BetaFiles
    /\ logftDir \in LogftDirs
    /\ overridesFile \in OverridesFiles
    /\ auditFile = NoFile
    /\ beta = <<>>
    /\ candidates = <<>>
    /\ overrides = <<>>
    /\ audit_rows = <<>>
    /\ i = 0
    /\ h = NewHistory(betaFile, FALSE)

---------------------------------------------------------------------------
(* main() *)

\* main() ends: a return code, or the exception that escaped
Ends(code) == pc' = "done" /\ exitCode' = code

\* lines 335-337: if not args.beta.exists(): return 2
CheckBeta ==
    /\ pc = "check_beta"
    /\ IF ~betaFile.exists THEN Ends("2") ELSE pc' = "read_beta" /\ exitCode' = exitCode
    /\ UNCHANGED <<force, require_complete, betaFile, logftDir, overridesFile,
                   auditFile, beta, candidates, overrides, audit_rows, i, h>>

\* lines 339-348: read the table, require its columns, add a logft column
ReadBeta ==
    /\ pc = "read_beta"
    /\ IF ~(RequiredBetaCols \subseteq betaFile.cols)
       THEN Ends("RuntimeError") /\ beta' = beta
       ELSE pc' = "read_candidates" /\ exitCode' = exitCode /\ beta' = read_csv(betaFile)
    /\ UNCHANGED <<force, require_complete, betaFile, logftDir, overridesFile,
                   auditFile, candidates, overrides, audit_rows, i, h>>

\* line 353 without its second condition
NoSources_ignoringOverrides(candidates_raw, overrides_exist) == empty(candidates_raw)

\* line 353: candidates_raw.empty and not args.overrides.exists()
NoSources(candidates_raw, overrides_exist) == empty(candidates_raw) /\ ~overrides_exist

\* lines 351-360: mkdir the source directory, read and normalize the sources
ReadCandidates ==
    /\ pc = "read_candidates"
    /\ logftDir' = [logftDir EXCEPT !.exists = TRUE]
    /\ h' = [h EXCEPT !.created = IF logftDir.exists THEN @ ELSE @ \cup {"logft_dir"}]
    /\ LET candidates_raw == _read_csvs(logftDir.files)
           norm == _normalize_candidates(candidates_raw)
       IN  IF NoSources(candidates_raw, overridesFile.exists)
           THEN Ends("2") /\ candidates' = candidates
           ELSE IF empty(candidates_raw)
           THEN pc' = "read_overrides" /\ exitCode' = exitCode /\ candidates' = <<>>
           ELSE IF norm.err # "none"
           THEN Ends(norm.err) /\ candidates' = candidates
           ELSE pc' = "read_overrides" /\ exitCode' = exitCode /\ candidates' = norm.rows
    /\ UNCHANGED <<force, require_complete, betaFile, overridesFile, auditFile,
                   beta, overrides, audit_rows, i>>

\* line 362: overrides = _normalize_overrides(args.overrides)
ReadOverrides ==
    /\ pc = "read_overrides"
    /\ LET norm == _normalize_overrides(overridesFile)
       IN  IF norm.err # "none"
           THEN Ends(norm.err) /\ overrides' = overrides
           ELSE pc' = "loop" /\ exitCode' = exitCode /\ overrides' = norm.rows
    /\ UNCHANGED <<force, require_complete, betaFile, logftDir, overridesFile,
                   auditFile, beta, candidates, audit_rows, i, h>>

\* the audit record of a row that keeps its value (lines 379-388)
KeptAudit(row) ==
    [Z |-> row.Z, A |-> row.A, logft |-> Num(float(row.logft)),
     method |-> "kept_existing", source |-> Txt_empty, beta_mode |-> BetaMode(row),
     cand_mode |-> Txt_empty, br_pct_used |-> Txt_empty, note |-> Txt_empty]

\* the audit record carrying the value the row came with
ResolvedAudit_rowValue(row, res) ==
    [Z |-> row.Z, A |-> row.A, logft |-> row.logft,
     method |-> res.method, source |-> res.source, beta_mode |-> BetaMode(row),
     cand_mode |-> res.cand_mode, br_pct_used |-> res.br_pct_used, note |-> res.note]

\* the audit record of a resolved or missing row (lines 394-403, 408-417)
ResolvedAudit(row, res) ==
    [Z |-> row.Z, A |-> row.A, logft |-> res.logft,
     method |-> res.method, source |-> res.source, beta_mode |-> BetaMode(row),
     cand_mode |-> res.cand_mode, br_pct_used |-> res.br_pct_used, note |-> res.note]

\* line 377 with the flag read the wrong way round
Skips_inverted(row, forced) == has_cur(row.logft) /\ forced

\* line 377 never taken
Skips_never(row, forced) == FALSE

\* the rows choose_logft_for_row is not called for (line 377)
Skips(row, forced) == has_cur(row.logft) /\ ~forced

\* line 406 reached also when nothing was found
Merged_blanking(row, res) == res.logft

\* the value line 406 leaves in the row's logft: the resolved value, or the
\* row's own when nothing was found
Merged(row, res) == IF res.logft = NaN THEN row.logft ELSE res.logft

\* lines 369-417: one iteration of the loop over the primary rows
ProcessRow ==
    /\ pc = "loop"
    /\ i < Len(beta)
    /\ LET row == beta[i + 1] IN
       IF Skips(row, force)
       THEN /\ audit_rows' = Append(audit_rows, KeptAudit(row))
            /\ UNCHANGED <<beta, h>>
       ELSE \E res \in choose_logft_for_row(row.Z, row.A, BetaMode(row), candidates, overrides) :
               /\ beta' = [beta EXCEPT ![i + 1].logft = Merged(row, res)]
               /\ audit_rows' = Append(audit_rows, ResolvedAudit(row, res))
               /\ h' = [h EXCEPT !.resolved = @ \cup {i + 1},
                                  !.assigned = IF res.logft = NaN THEN @ ELSE Append(@, i + 1)]
    /\ i' = i + 1
    /\ UNCHANGED <<pc, exitCode, force, require_complete, betaFile, logftDir,
                   overridesFile, auditFile, candidates, overrides>>

\* lines 419-421: the loop is over; write the table
WriteBeta ==
    /\ pc = "loop"
    /\ i = Len(beta)
    /\ betaFile' = to_csv(beta, betaFile.cols)
    /\ h' = [h EXCEPT !.wrote = Append(@, "beta")]
    /\ pc' = "write_audit"
    /\ UNCHANGED <<exitCode, force, require_complete, logftDir, overridesFile,
                   auditFile, beta, candidates, overrides, audit_rows, i>>

\* audit.sort_values(["Z", "A"]): two keys, so a stable sort
RECURSIVE InsertByKey(_, _)
InsertByKey(sorted, r) ==
    IF sorted = <<>> THEN <<r>>
    ELSE LET last == sorted[Len(sorted)] IN
         IF last.Z < r.Z \/ (last.Z = r.Z /\ last.A <= r.A)
         THEN Append(sorted, r)
         ELSE Append(InsertByKey(SubSeq(sorted, 1, Len(sorted) - 1), r), last)

RECURSIVE SortByKey(_)
SortByKey(rows) ==
    IF rows = <<>> THEN <<>>
    ELSE InsertByKey(SortByKey(SubSeq(rows, 1, Len(rows) - 1)), rows[Len(rows)])

\* lines 423-426: build the audit frame, sort it, write it; a frame built
\* from an empty list has no columns, and sorting it by Z raises KeyError
WriteAudit ==
    /\ pc = "write_audit"
    /\ IF audit_rows = <<>>
       THEN Ends("KeyError") /\ UNCHANGED <<auditFile, h>>
       ELSE /\ auditFile' = [exists |-> TRUE, rows |-> SortByKey(audit_rows)]
            /\ h' = [h EXCEPT !.wrote = Append(@, "audit")]
            /\ pc' = "exit"
            /\ exitCode' = exitCode
    /\ UNCHANGED <<force, require_complete, betaFile, logftDir, overridesFile,
                   beta, candidates, overrides, audit_rows, i>>

\* beta["logft"].isna().sum()
still_missing == Cardinality({k \in 1..Len(beta) : isna(beta[k].logft)})

\* lines 431-437 without the test of args.require_complete
Exit_ignoringFlag ==
    /\ pc = "exit"
    /\ Ends(IF still_missing # 0 THEN "3" ELSE "0")
    /\ UNCHANGED <<force, require_complete, betaFile, logftDir, overridesFile,
                   auditFile, beta, candidates, overrides, audit_rows, i, h>>

\* lines 431-437: the return code
Exit ==
    /\ pc = "exit"
    /\ Ends(IF require_complete /\ still_missing # 0 THEN "3" ELSE "0")
    /\ UNCHANGED <<force, require_complete, betaFile, logftDir, overridesFile,
                   auditFile, beta, candidates, overrides, audit_rows, i, h>>

\* the engine is started again on what the run before left on disk, with
\* the sources as they are
RunAgain ==
    /\ pc = "done"
    /\ force' \in BOOLEAN
    /\ require_complete' \in BOOLEAN
    /\ h' = NewHistory(betaFile,
                       ~force /\ ~force' /\ h.wrote # <<>> /\ exitCode \in {"0", "3"})
    /\ pc' = "check_beta"
    /\ exitCode' = "none"
    /\ beta' = <<>> /\ candidates' = <<>> /\ overrides' = <<>> /\ audit_rows' = <<>>
    /\ i' = 0
    /\ UNCHANGED <<betaFile, logftDir, overridesFile, auditFile>>

\* the engine is started again after the sources were replaced
RunAgainOnNewSources ==
    /\ pc = "done"
    /\ force' \in BOOLEAN
    /\ require_complete' = require_complete
    /\ logftDir' \in LogftDirs
    /\ overridesFile' \in OverridesFiles
    /\ h' = NewHistory(betaFile, FALSE)
    /\ pc' = "check_beta"
    /\ exitCode' = "none"
    /\ beta' = <<>> /\ candidates' = <<>> /\ overrides' = <<>> /\ audit_rows' = <<>>
    /\ i' = 0
    /\ UNCHANGED <<betaFile, auditFile>>

Next ==
    \/ CheckBeta
    \/ ReadBeta
    \/ ReadCandidates
    \/ ReadOverrides
    \/ ProcessRow
    \/ WriteBeta
    \/ WriteAudit
    \/ Exit
    \/ RunAgain
    \/ RunAgainOnNewSources

Spec == Init /\ [][Next]_vars

---------------------------------------------------------------------------
(* choose_logft_for_row on its own: one primary row (Z, A) = (1, 1), and   *)
(* candidate and override frames of every content within the bounds.  The  *)
(* k-th row of a frame is marked with k (its source, and for an override   *)
(* its logft), so that the row a result came from can be told.             *)

MaxCands == 2       \* rows in the candidate frame
MaxOverrides == 2   \* rows in the override frame

ChooseCandRows ==
    {[Z |-> 1, A |-> a, logft |-> l, mode |-> mb[1], br_pct |-> mb[2], source |-> Txt_empty] :
        a \in {1, 2}, l \in {47, 61},
        mb \in {<<Txt_betam, NaN>>, <<Txt_EC, Num(800)>>, <<Txt_empty, Num(200)>>,
                 <<Txt_betap, Num(200)>>}}

ChooseOverrideKeys == {<<1, 1>>, <<1, 2>>, <<2, 1>>}

CandFrames ==
    {[k \in DOMAIN f |-> [f[k] EXCEPT !.source = NatToText(k)]] :
        f \in SeqsUpTo(ChooseCandRows, MaxCands)}

OverrideFrames ==
    {[k \in DOMAIN f |->
         [Z |-> f[k][1], A |-> f[k][2], logft |-> 40 + k,
          mode |-> IF k % 2 = 1 THEN Txt_EC ELSE Txt_empty,
          source |-> NatToText(k), note |-> Str(Txt_empty)]] :
        f \in SeqsUpTo(ChooseOverrideKeys, MaxOverrides)}

InitChoose ==
    /\ pc = "choose"
    /\ exitCode = "none"
    /\ force = FALSE
    /\ require_complete = FALSE
    /\ betaFile = NoFile
    /\ logftDir = NoFile
    /\ overridesFile = NoFile
    /\ auditFile = NoFile
    /\ beta \in {<<[Z |-> 1, A |-> 1, mode |-> m, logft |-> NaN]>> : m \in {NaN, Str(Txt_betam), Str(Txt_betap)}}
    /\ candidates \in CandFrames
    /\ overrides \in OverrideFrames
    /\ audit_rows = <<>>
    /\ i = 0
    /\ h = NewHistory(NoFile, FALSE)

\* the call of line 391 and the audit record made of what it returns
Choose ==
    /\ pc = "choose"
    /\ \E res \in choose_logft_for_row(beta[1].Z, beta[1].A, BetaMode(beta[1]),
                                       candidates, overrides) :
          audit_rows' = <<ResolvedAudit(beta[1], res)>>
    /\ pc' = "chosen"
    /\ UNCHANGED <<exitCode, force, require_complete, betaFile, logftDir,
                   overridesFile, auditFile, beta, candidates, overrides, i, h>>

SpecChoose == InitChoose /\ [][Choose]_vars

---------------------------------------------------------------------------
(* main() over source directories of several files: files that lack a     *)
(* column another file has, and files whose rows tie.  After a run the     *)
(* engine can be started once more on the inputs the run was given.        *)

\* b.csv: one row for (1, 1) with the logft of the last row of File_plain
File_tie ==
    [path |-> Path_b, cols |-> {"Z", "A", "logft", "mode"},
     rows |-> <<Raw(Num(10), Num(10), Num(47), Str(Txt_EC), NaN, NaN, NaN, NaN)>>]

SourceDirs ==
    {[exists |-> FALSE, files |-> <<>>],
     [exists |-> TRUE, files |-> <<File_nologft>>],
     [exists |-> TRUE, files |-> <<File_br>>],
     [exists |-> TRUE, files |-> <<File_nologft, File_src>>],
     [exists |-> TRUE, files |-> <<File_plain, File_src>>],
     [exists |-> TRUE, files |-> <<File_plain, File_tie>>]}

\* the rows of these primary tables: tau_s is written as a whole number,
\* with a decimal, or left empty
SourcesBetaRows ==
    {[Z |-> 1, A |-> 1, mode |-> Txt_betam, tau_s |-> t, logft |-> x] :
        t \in {Txt_5, Txt_53}, x \in {Txt_empty, Txt_53}}
    \cup {[Z |-> 2, A |-> 1, mode |-> Txt_empty, tau_s |-> Txt_empty, logft |-> Txt_empty]}

SourcesBetaFiles ==
    {[exists |-> TRUE, cols |-> AllBetaCols, rows |-> rs] :
        rs \in SeqsUpTo(SourcesBetaRows, MaxRows)}

\* what a run leaves: the table, the audit, and how it ended
Outputs == [known |-> TRUE, table |-> betaFile, audit |-> auditFile, code |-> exitCode]

NoOutputs == [known |-> FALSE, table |-> NoFile, audit |-> NoFile, code |-> "none"]

InitSources ==
    /\ pc = "check_beta"
    /\ exitCode = "none"
    /\ force \in BOOLEAN
    /\ require_complete \in BOOLEAN
    /\ betaFile \in SourcesBetaFiles
    /\ logftDir \in SourceDirs
    /\ overridesFile \in OverridesFiles
    /\ auditFile = NoFile
    /\ beta = <<>>
    /\ candidates = <<>>
    /\ overrides = <<>>
    /\ audit_rows = <<>>
    /\ i = 0
    /\ h = NewHistory(betaFile, FALSE) @@ [prev |-> NoOutputs]

\* the engine is started again with the same flags on the inputs the run
\* before was given: the table as that run found it, the same sources, no
\* audit file; what that run left is remembered
RunOnSameInputs ==
    /\ pc = "done"
    /\ betaFile' = h.start
    /\ logftDir' = [logftDir EXCEPT !.exists = "logft_dir" \notin h.created]
    /\ auditFile' = NoFile
    /\ h' = NewHistory(h.start, FALSE) @@ [prev |-> Outputs]
    /\ pc' = "check_beta"
    /\ exitCode' = "none"
    /\ beta' = <<>> /\ candidates' = <<>> /\ overrides' = <<>> /\ audit_rows' = <<>>
    /\ i' = 0
    /\ UNCHANGED <<force, require_complete, overridesFile>>

NextSources ==
    \/ CheckBeta
    \/ ReadBeta
    \/ ReadCandidates
    \/ ReadOverrides
    \/ ProcessRow
    \/ WriteBeta
    \/ WriteAudit
    \/ Exit
    \/ RunOnSameInputs

SpecSources == InitSources /\ [][NextSources]_vars

---------------------------------------------------------------------------
(* _mode_match_score on its own: a primary mode and a candidate mode, as   *)
(* the strings line 290 passes, of every case, padding and content below.  *)

ScorePrimaryModes ==
    {Txt_empty, Txt_space, Txt_betam, Txt_betap, Txt_ec, Txt_EC, Txt_BETAm_padded,
     Txt_beta, Txt_nan}

ScoreCandModes ==
    {Txt_empty, Txt_betam, Txt_betap, Txt_ec, Txt_EC, Txt_ECbetap, Txt_BETAm_padded,
     Txt_beta, Txt_nan, Txt_space}

InitScore ==
    /\ pc = "score"
    /\ exitCode = "none"
    /\ force = FALSE
    /\ require_complete = FALSE
    /\ betaFile = NoFile
    /\ logftDir = NoFile
    /\ overridesFile = NoFile
    /\ auditFile = NoFile
    /\ beta \in {<<[Z |-> 1, A |-> 1, mode |-> Str(m), logft |-> NaN]>> : m \in ScorePrimaryModes}
    /\ candidates \in {<<[Z |-> 1, A |-> 1, logft |-> 47, mode |-> m, br_pct |-> NaN,
                           source |-> Txt_src]>> : m \in ScoreCandModes}
    /\ overrides = <<>>
    /\ audit_rows = <<>>
    /\ i = 0
    /\ h = NewHistory(NoFile, FALSE)

\* lines 289-291: the mode_score column of the candidates
Score ==
    /\ pc = "score"
    /\ audit_rows' = [k \in 1..Len(candidates) |->
                         [mode_score |-> _mode_match_score(beta[1].mode.s, candidates[k].mode)]]
    /\ pc' = "scored"
    /\ UNCHANGED <<exitCode, force, require_complete, betaFile, logftDir,
                   overridesFile, auditFile, beta, candidates, overrides, i, h>>

SpecScore == InitScore /\ [][Score]_vars

---------------------------------------------------------------------------
(* main() over sources that need normalizing: cells that do not parse,    *)
(* fractional keys, both branching columns, source and mode columns with   *)
(* empty cells or present in one file only.  The primary table has the one *)
(* row (1, 1).                                                             *)

Txt_x == <<"x">>
Txt_1 == <<"1">>
Txt_30 == <<"3", ".", "0">>
Txt_44 == <<"4", ".", "4">>
Txt_47 == <<"4", ".", "7">>
Txt_61 == <<"6", ".", "1">>
Txt_80 == <<"8", "0">>
Txt_EC_padded == <<" ", "E", "C", " ">>
Txt_src_padded == <<" ", "s", "r", "c", " ">>

\* a.csv: a mode column with an empty cell in the row of the smaller percentage
File_modes ==
    [path |-> Path_a, cols |-> {"Z", "A", "logft", "mode", "br_pct"},
     rows |-> <<Raw(Num(10), Num(10), Num(53), Str(Txt_betam), Num(800), NaN, NaN, NaN),
                Raw(Num(10), Num(10), Num(61), NaN, Num(200), NaN, NaN, NaN)>>]

\* a.csv: a logft, a Z and an A that do not parse, before two rows that do;
\* a column with a text in it is read as text
File_bad ==
    [path |-> Path_a, cols |-> {"Z", "A", "logft"},
     rows |-> <<Raw(Str(Txt_1), Num(10), Str(Txt_x), NaN, NaN, NaN, NaN, NaN),
                Raw(Str(<<"Z">>), Num(10), Str(Txt_30), NaN, NaN, NaN, NaN, NaN),
                Raw(Str(Txt_1), NaN, Str(Txt_30), NaN, NaN, NaN, NaN, NaN),
                Raw(Str(Txt_1), Num(10), Str(Txt_61), NaN, NaN, NaN, NaN, NaN),
                Raw(Str(Txt_1), Num(10), Str(Txt_47), NaN, NaN, NaN, NaN, NaN)>>]

\* a.csv: a row with Z = 1.5
File_frac ==
    [path |-> Path_a, cols |-> {"Z", "A", "logft"},
     rows |-> <<Raw(Num(15), Num(10), Num(47), NaN, NaN, NaN, NaN, NaN),
                Raw(Num(10), Num(10), Num(61), NaN, NaN, NaN, NaN, NaN)>>]

\* a.csv: a percentage and a fraction column: both known (80 and 0.2), the
\* fraction alone (0.9), neither, and a percentage that does not parse
\* beside the fraction 0.5
File_pct ==
    [path |-> Path_a, cols |-> {"Z", "A", "logft", "br_pct", "br"},
     rows |-> <<Raw(Num(10), Num(10), Num(61), NaN, Str(Txt_80), Num(2), NaN, NaN),
                Raw(Num(10), Num(10), Num(47), NaN, NaN, Num(9), NaN, NaN),
                Raw(Num(10), Num(10), Num(39), NaN, NaN, NaN, NaN, NaN),
                Raw(Num(10), Num(10), Num(53), NaN, Str(Txt_x), Num(5), NaN, NaN)>>]

\* b.csv: a source column with a padded name, an empty cell and a blank cell
File_sources ==
    [path |-> Path_b, cols |-> {"Z", "A", "logft", "source"},
     rows |-> <<Raw(Num(10), Num(10), Num(39), NaN, NaN, NaN, Str(Txt_src_padded), NaN),
                Raw(Num(10), Num(10), Num(35), NaN, NaN, NaN, NaN, NaN),
                Raw(Num(10), Num(10), Num(30), NaN, NaN, NaN, Str(Txt_space), NaN)>>]

NormDirs ==
    {[exists |-> TRUE, files |-> <<File_modes>>],
     [exists |-> TRUE, files |-> <<File_bad>>],
     [exists |-> TRUE, files |-> <<File_frac>>],
     [exists |-> TRUE, files |-> <<File_pct>>],
     [exists |-> TRUE, files |-> <<File_plain, File_src>>],
     [exists |-> TRUE, files |-> <<File_plain, File_sources>>]}

\* no overrides file; a row whose logft does not parse before a row with
\* Z = 1.5 and empty mode and source cells; a file of the three required
\* columns; padded and blank mode and source cells
NormOverrides ==
    {[exists |-> FALSE, path |-> Path_ov, cols |-> {}, rows |-> <<>>],
     [exists |-> TRUE, path |-> Path_ov, cols |-> {"Z", "A", "logft", "mode", "source"},
      rows |-> <<Raw(Num(10), Num(10), Str(Txt_x), Str(Txt_EC_padded), NaN, NaN,
                     Str(Txt_src_padded), NaN),
                 Raw(Num(15), Num(10), Str(Txt_44), NaN, NaN, NaN, NaN, NaN)>>],
     [exists |-> TRUE, path |-> Path_ov, cols |-> {"Z", "A", "logft"},
      rows |-> <<Raw(Num(10), Num(10), Num(40), NaN, NaN, NaN, NaN, NaN)>>],
     [exists |-> TRUE, path |-> Path_ov, cols |-> {"Z", "A", "logft", "mode", "source"},
      rows |-> <<Raw(Num(10), Num(20), Num(44), Str(Txt_EC_padded), NaN, NaN,
                     Str(Txt_src_padded), NaN),
                 Raw(Num(10), Num(10), Num(40), Str(Txt_space), NaN, NaN,
                     Str(Txt_space), NaN)>>]}

\* the primary table: the row (1, 1) with an empty, a blank or a beta- mode
\* cell, and an empty logft or 5.3
NormBetaFiles ==
    {[exists |-> TRUE, cols |-> AllBetaCols,
      rows |-> <<[Z |-> 1, A |-> 1, mode |-> m, tau_s |-> Txt_53, logft |-> x]>>] :
        m \in {Txt_empty, Txt_space, Txt_betam}, x \in {Txt_empty, Txt_53}}

InitNormalize ==
    /\ pc = "check_beta"
    /\ exitCode = "none"
    /\ force \in BOOLEAN
    /\ require_complete \in BOOLEAN
    /\ betaFile \in NormBetaFiles
    /\ logftDir \in NormDirs
    /\ overridesFile \in NormOverrides
    /\ auditFile = NoFile
    /\ beta = <<>>
    /\ candidates = <<>>
    /\ overrides = <<>>
    /\ audit_rows = <<>>
    /\ i = 0
    /\ h = NewHistory(betaFile, FALSE)

NextNormalize ==
    \/ CheckBeta
    \/ ReadBeta
    \/ ReadCandidates
    \/ ReadOverrides
    \/ ProcessRow
    \/ WriteBeta
    \/ WriteAudit
    \/ Exit

SpecNormalize == InitNormalize /\ [][NextNormalize]_vars

---------------------------------------------------------------------------
(* What the claims speak of *)

\* the primary table as the run found it, and as it is on disk now
StartFrame == read_csv(h.start)
DiskFrame == read_csv(betaFile)

\* the run has written the table / the audit
WroteBeta == \E k \in 1..Len(h.wrote) : h.wrote[k] = "beta"
WroteAudit == \E k \in 1..Len(h.wrote) : h.wrote[k] = "audit"

\* two cells hold the same logft: the same number, or the same empty content
SameLogft(c, d) ==
    \/ has_cur(c) /\ has_cur(d) /\ float(c) = float(d)
    \/ ~has_cur(c) /\ ~has_cur(d) /\ CsvField(c) = CsvField(d)

HasKey(r, Z, A) == r.Z = Z /\ r.A = A

\* some row of the frame has the key
KeyIn(frame, Z, A) == \E k \in 1..Len(frame) : HasKey(frame[k], Z, A)

\* C1: in choose_logft_for_row, whenever the override frame has a row for
\* (Z, A), the result is the logft of the first such row in load order, with
\* method `override` and that row's provenance, whatever the primary mode,
\* the candidates (none included) and the override's own mode are.
C1_OverrideAlwaysWins ==
    pc = "chosen" =>
        \A k \in 1..Len(overrides) :
            ( /\ HasKey(overrides[k], beta[1].Z, beta[1].A)
              /\ \A j \in 1..(k - 1) : ~HasKey(overrides[j], beta[1].Z, beta[1].A) )
            => /\ audit_rows[1].method = "override"
               /\ audit_rows[1].logft = Num(overrides[k].logft)
               /\ audit_rows[1].source = overrides[k].source
               /\ audit_rows[1].cand_mode = overrides[k].mode

\* C1 witness: two overrides and a candidate for the key, the first override
\* of a mode that does not match the primary mode; the first override won.
C1_Witness ==
    /\ pc = "chosen"
    /\ Len(overrides) = 2
    /\ HasKey(overrides[1], 1, 1) /\ HasKey(overrides[2], 1, 1)
    /\ KeyIn(candidates, 1, 1)
    /\ BetaMode(beta[1]) = Txt_betam
    /\ _mode_match_score(BetaMode(beta[1]), overrides[1].mode) = 0
    /\ audit_rows[1].method = "override"
    /\ audit_rows[1].logft = Num(overrides[1].logft)

\* C2: in a run without --force, a primary row whose logft is non-empty at
\* the start is never handed to choose_logft_for_row, is audited
\* `kept_existing` with its value, and has that value in the written table,
\* also when an override or a candidate with another value exists for it.
C2_KeptExisting ==
    ~force =>
        \A k \in 1..Len(StartFrame) :
            has_cur(StartFrame[k].logft) =>
                /\ k \notin h.resolved
                /\ k <= Len(audit_rows) =>
                      /\ audit_rows[k].method = "kept_existing"
                      /\ audit_rows[k].logft = Num(float(StartFrame[k].logft))
                /\ WroteBeta =>
                      /\ has_cur(DiskFrame[k].logft)
                      /\ float(DiskFrame[k].logft) = float(StartFrame[k].logft)
                /\ WroteAudit =>
                      \E j \in 1..Len(auditFile.rows) :
                          /\ HasKey(auditFile.rows[j], StartFrame[k].Z, StartFrame[k].A)
                          /\ auditFile.rows[j].method = "kept_existing"
                          /\ auditFile.rows[j].logft = Num(float(StartFrame[k].logft))

\* C2 witness: a finished run without --force kept 5.3 in a row for which an
\* override with another value was loaded.
C2_Witness ==
    /\ pc = "done" /\ exitCode = "0" /\ ~force
    /\ \E k \in 1..Len(StartFrame) :
          /\ has_cur(StartFrame[k].logft)
          /\ KeyIn(overrides, StartFrame[k].Z, StartFrame[k].A)
          /\ KeyIn(candidates, StartFrame[k].Z, StartFrame[k].A)
          /\ float(DiskFrame[k].logft) = 53
          /\ audit_rows[k].method = "kept_existing"

\* C3: in a run with --force, every row is resolved; where resolution
\* returns a value the written table holds that value, and where it returns
\* none (`missing`) the written table holds what the row had at the start.
C3_ForceOverwritesOrKeeps ==
    (force /\ WroteBeta) =>
        \A k \in 1..Len(StartFrame) :
            /\ k \in h.resolved
            /\ \A res \in choose_logft_for_row(StartFrame[k].Z, StartFrame[k].A,
                                               BetaMode(StartFrame[k]), candidates, overrides) :
                  IF res.logft # NaN
                  THEN has_cur(DiskFrame[k].logft) /\ float(DiskFrame[k].logft) = res.logft.n
                  ELSE SameLogft(DiskFrame[k].logft, StartFrame[k].logft)

\* C3 witness: a forced run replaced the 5.3 of one row by another value and
\* left the 5.3 of a row that is in no source.
C3_Witness ==
    /\ pc = "done" /\ force /\ WroteBeta
    /\ \E k, m \in 1..Len(StartFrame) :
          /\ has_cur(StartFrame[k].logft) /\ has_cur(StartFrame[m].logft)
          /\ audit_rows[k].method = "override"
          /\ float(DiskFrame[k].logft) # float(StartFrame[k].logft)
          /\ audit_rows[m].method = "missing"
          /\ float(DiskFrame[m].logft) = 53

\* C4: a run without --force that follows a run without --force on the table
\* that run wrote, with the sources as they were, writes the same table
\* again and audits every row that has a logft as `kept_existing`.
C4_SecondRunChangesNothing ==
    (h.repeat /\ WroteBeta) =>
        /\ betaFile = h.start
        /\ \A k \in 1..Len(StartFrame) :
              (has_cur(StartFrame[k].logft) /\ k <= Len(audit_rows))
              => audit_rows[k].method = "kept_existing"

\* C4 witness: the second of two such runs is over; it found a row the first
\* run had filled from a source (4.7 is in no primary table to begin with).
C4_Witness ==
    /\ pc = "done" /\ h.repeat /\ WroteBeta /\ exitCode = "0"
    /\ \E k \in 1..Len(StartFrame) :
          /\ has_cur(StartFrame[k].logft)
          /\ float(StartFrame[k].logft) = 47
          /\ audit_rows[k].method = "kept_existing"
    /\ \E k \in 1..Len(StartFrame) : ~has_cur(StartFrame[k].logft)

\* C5: over any sequence of runs, with the sources replaced between runs,
\* no step of a run without --force changes a non-empty logft of the table
\* on disk or the number of its rows: only empty fields are filled.
C5_AppendOnly ==
    [][ ~force =>
          \/ betaFile' = betaFile
          \/ /\ Len(betaFile'.rows) = Len(betaFile.rows)
             /\ LET before == DiskFrame
                    after == read_csv(betaFile')
                IN  \A k \in 1..Len(before) :
                        has_cur(before[k].logft) =>
                            /\ has_cur(after[k].logft)
                            /\ float(after[k].logft) = float(before[k].logft)
      ]_vars

\* C5 witness: a later run without --force is about to write its audit; a
\* row came with 4.7, which an earlier run had filled in, the override now
\* loaded for it says otherwise, and the table just written still has 4.7.
C5_Witness ==
    /\ pc = "write_audit" /\ ~force /\ auditFile.exists
    /\ \E k \in 1..Len(StartFrame) :
          /\ has_cur(StartFrame[k].logft)
          /\ float(StartFrame[k].logft) = 47
          /\ KeyIn(overrides, StartFrame[k].Z, StartFrame[k].A)
          /\ float(DiskFrame[k].logft) = 47

\* the run got past the input checks: the files were there and had their
\* columns, so the loop over the primary rows was entered
PassedInputChecks == pc \in {"loop", "write_audit", "exit"} \/ (pc = "done" /\ i = Len(beta) /\ exitCode \notin {"2", "RuntimeError", "TypeError"})

AuditMethods ==
    {"override", "candidate_highest_br", "candidate_min_logft", "missing", "kept_existing"}

\* C6 (as claimed): a run that passes the input checks ends with an audit
\* written that has exactly one record per primary row, each with one of the
\* five methods, for a table of any number of rows.  The code fails this for
\* a table of no rows: the audit frame is sorted by columns it does not have.
C6_OneAuditRecordPerRow ==
    (pc = "done" /\ PassedInputChecks) =>
        /\ WroteAudit
        /\ Len(auditFile.rows) = Len(beta)
        /\ \A k \in 1..Len(auditFile.rows) : auditFile.rows[k].method \in AuditMethods

\* some primary row has no logft after the loop (absent or blank, as has_cur
\* reads it)
SomeLogftEmpty == \E k \in 1..Len(beta) : ~has_cur(beta[k].logft)

\* C7 (as claimed): a run that passed the input checks and returned a code
\* returned 3 exactly if --require_complete was set and some primary row's
\* logft is still empty (absent or blank), and 0 otherwise, with the table
\* and the audit written.  The code counts only missing values (isna), not
\* the blank fields has_cur treats as empty.
C7_ExitCode ==
    (pc = "done" /\ exitCode \in {"0", "3"}) =>
        /\ exitCode = "3" <=> (require_complete /\ SomeLogftEmpty)
        /\ WroteBeta /\ WroteAudit

\* the key of row k of the table is in no source
InNoSource(k) ==
    /\ ~KeyIn(candidates, StartFrame[k].Z, StartFrame[k].A)
    /\ ~KeyIn(overrides, StartFrame[k].Z, StartFrame[k].A)

\* no logft field of the table the run found is a blank text
NoBlankField == \A k \in 1..Len(StartFrame) : StartFrame[k].logft.t # "str" \/ has_cur(StartFrame[k].logft)

\* C8 (as claimed): a run over a table with a row whose (Z, A) is in no
\* source returns 3 with --require_complete, and without it returns 0 and
\* leaves that row's logft empty.  (Stated for tables without blank fields,
\* where C7's miscount cannot be the cause of a violation.)
C8_Original ==
    (pc = "done" /\ exitCode \in {"0", "3"} /\ NoBlankField) =>
        \A k \in 1..Len(StartFrame) :
            InNoSource(k) =>
                IF require_complete THEN exitCode = "3"
                ELSE exitCode = "0" /\ ~has_cur(DiskFrame[k].logft)

\* C8 (amended): a run over a table with a row whose logft is a missing
\* value at the start (an empty field, or no logft column) and whose (Z, A)
\* is in no source returns 3 with --require_complete, and without it returns
\* 0 and leaves that row's logft empty.
C8_CompletenessGating ==
    (pc = "done" /\ PassedInputChecks) =>
        \A k \in 1..Len(StartFrame) :
            (InNoSource(k) /\ isna(StartFrame[k].logft)) =>
                IF require_complete THEN exitCode = "3"
                ELSE exitCode = "0" /\ isna(DiskFrame[k].logft)

\* C8 witness: both outcomes need a finished run with such a row; here the
\* run was given --require_complete, filled another row and returned 3.
C8_Witness ==
    /\ pc = "done" /\ require_complete /\ exitCode = "3"
    /\ \E k, m \in 1..Len(StartFrame) :
          /\ InNoSource(k) /\ isna(StartFrame[k].logft)
          /\ audit_rows[m].method = "candidate_highest_br"

\* what the run found on disk
BetaWasThere == h.start.exists
BetaHadColumns == RequiredBetaCols \subseteq h.start.cols
LogftDirWasThere == "logft_dir" \notin h.created
NoCandidateRows == \A k \in 1..Len(logftDir.files) : logftDir.files[k].rows = <<>>
NothingProcessed == i = 0 /\ audit_rows = <<>> /\ h.resolved = {}

\* C9 (as claimed): the run returns 2 with no row processed when the primary
\* file is missing, when the source directory is missing, or when there are
\* no candidate sources and no overrides file.  (Stated for the runs that
\* return a code on a primary table that is there with its columns.)
C9_Original ==
    (pc = "done" /\ BetaWasThere /\ BetaHadColumns /\ exitCode \in {"0", "2", "3"}) =>
        ((~LogftDirWasThere \/ (NoCandidateRows /\ ~overridesFile.exists))
         => (exitCode = "2" /\ NothingProcessed))

\* C9 (amended): the run returns 2 with no row processed when the primary
\* file is missing; when the primary file is there with its columns, it
\* returns 2 exactly if no candidate row was read (the directory missing,
\* without csv files, or with files without rows) and there is no overrides
\* file.  A missing source directory is created and is no error when an
\* overrides file exists; a missing overrides file is no error when a
\* candidate row exists.
C9_ExitTwo ==
    pc = "done" =>
        /\ ~BetaWasThere => (exitCode = "2" /\ NothingProcessed /\ beta = <<>>)
        /\ (BetaWasThere /\ BetaHadColumns) =>
              /\ exitCode = "2" <=> (NoCandidateRows /\ ~overridesFile.exists)
              /\ exitCode = "2" => NothingProcessed
              /\ (~LogftDirWasThere /\ overridesFile.exists) => logftDir.exists

\* C9 witness: the source directory was missing, an overrides file was there,
\* and the run went through and returned 0 with a row filled from it.
C9_Witness ==
    /\ pc = "done" /\ exitCode = "0"
    /\ ~LogftDirWasThere /\ overridesFile.exists
    /\ \E k \in 1..Len(audit_rows) : audit_rows[k].method = "override"

\* the run ended with an input error
InputError == pc = "done" /\ exitCode \in {"2", "RuntimeError"}

\* C10 (as claimed): a run that ends with an input error has written neither
\* the table nor the audit and has created or changed nothing else.  The
\* code creates the source directory before it finds that it has no sources.
C10_InputErrorChangesNothing ==
    InputError =>
        /\ h.wrote = <<>>
        /\ betaFile = h.start
        /\ h.created = {}

\* the three columns every source must have after the mapping of names
RequiredSourceCols == {"Z", "A", "logft"}

\* some candidate file, or the overrides file, lacks a required column
SomeSourceLacksColumn ==
    \/ \E k \in 1..Len(logftDir.files) : ~(RequiredSourceCols \subseteq logftDir.files[k].cols)
    \/ overridesFile.exists /\ ~(RequiredSourceCols \subseteq overridesFile.cols)

\* C11 (as claimed): if any single candidate file lacks Z, A or logft, also
\* when another file has it, or the overrides file lacks one of them, the
\* run ends with a schema error and the loop over the primary rows is never
\* entered.  The code checks the columns of the concatenation of the files,
\* so a column one file lacks is supplied by any other file that has it.
C11_SchemaErrorPerFile ==
    SomeSourceLacksColumn =>
        /\ pc \notin {"loop", "write_audit", "exit"}
        /\ NothingProcessed
        /\ pc = "done" => exitCode = "RuntimeError"

\* the candidates of the primary row's key (indices into the frame), and
\* whether an override has the key
KeyCands == {k \in 1..Len(candidates) : HasKey(candidates[k], beta[1].Z, beta[1].A)}
OverrideForKey == KeyIn(overrides, beta[1].Z, beta[1].A)

\* the mode score of candidate k against the primary row's mode
ScoreOf(k) == _mode_match_score(BetaMode(beta[1]), candidates[k].mode)

\* the mode-retained candidates: those of the maximum score when it is
\* positive, all candidates of the key when it is 0
RetainedCands ==
    IF \E k \in KeyCands : ScoreOf(k) > 0
    THEN {k \in KeyCands : \A j \in KeyCands : ScoreOf(j) <= ScoreOf(k)}
    ELSE KeyCands

\* the branching percentage as a sort key: unknown is below every known one
BrKey(k) == IF isna(candidates[k].br_pct) THEN 0 - 1 ELSE candidates[k].br_pct.n

\* a candidate was chosen, and which: every row of a frame carries its
\* position as its source
ByCandidate ==
    pc = "chosen" /\ audit_rows[1].method \in {"candidate_highest_br", "candidate_min_logft"}
ChosenCand == CHOOSE k \in 1..Len(candidates) : candidates[k].source = audit_rows[1].source

\* C12: when a candidate is chosen for (Z, A), no candidate of the key has a
\* higher mode score, whatever the branching percentages and logft values;
\* and when all scores are 0 no candidate of the key was filtered out: none
\* is ahead of the chosen one by percentage, then logft.
C12_BestModeScore ==
    ByCandidate =>
        /\ ChosenCand \in KeyCands
        /\ \A k \in KeyCands : ScoreOf(k) <= ScoreOf(ChosenCand)
        /\ ScoreOf(ChosenCand) = 0 =>
              \A k \in KeyCands :
                  /\ BrKey(k) <= BrKey(ChosenCand)
                  /\ BrKey(k) = BrKey(ChosenCand)
                        => candidates[ChosenCand].logft <= candidates[k].logft

\* C12 witness: the chosen candidate scores 2 and the other candidate of the
\* key scores 1 with a larger percentage and a smaller logft.
C12_Witness ==
    /\ ByCandidate
    /\ ScoreOf(ChosenCand) = 2
    /\ \E k \in KeyCands :
          /\ ScoreOf(k) = 1
          /\ BrKey(k) > BrKey(ChosenCand)
          /\ candidates[k].logft < candidates[ChosenCand].logft

\* C13: if no override has the key and some mode-retained candidate has a
\* known branching percentage, the method is candidate_highest_br and the
\* chosen candidate is a retained one with a known percentage, no retained
\* candidate has a larger one, none with the same percentage has a smaller
\* logft, and the result carries its logft and its percentage.
C13_HighestBranching ==
    (pc = "chosen" /\ ~OverrideForKey /\ \E k \in RetainedCands : notna(candidates[k].br_pct)) =>
        /\ audit_rows[1].method = "candidate_highest_br"
        /\ ChosenCand \in RetainedCands
        /\ notna(candidates[ChosenCand].br_pct)
        /\ \A k \in RetainedCands :
              notna(candidates[k].br_pct) =>
                  \/ candidates[k].br_pct.n < candidates[ChosenCand].br_pct.n
                  \/ /\ candidates[k].br_pct.n = candidates[ChosenCand].br_pct.n
                     /\ candidates[ChosenCand].logft <= candidates[k].logft
        /\ audit_rows[1].logft = Num(candidates[ChosenCand].logft)
        /\ audit_rows[1].br_pct_used = Format6g(candidates[ChosenCand].br_pct.n)
        /\ audit_rows[1].cand_mode = candidates[ChosenCand].mode

\* C13 witness: two retained candidates of equal known percentage; the
\* second in the frame has the smaller logft and was chosen.
C13_Witness ==
    /\ pc = "chosen" /\ audit_rows[1].method = "candidate_highest_br"
    /\ ChosenCand = 2
    /\ RetainedCands = {1, 2}
    /\ BrKey(1) = BrKey(2)
    /\ candidates[2].logft < candidates[1].logft

\* C14: if no override has the key and the key has candidates of which no
\* mode-retained one has a known branching percentage, the method is
\* candidate_min_logft and the result is the smallest logft among the
\* retained candidates, from a retained candidate.
C14_MinLogft ==
    (pc = "chosen" /\ ~OverrideForKey /\ KeyCands # {}
        /\ \A k \in RetainedCands : isna(candidates[k].br_pct)) =>
        /\ audit_rows[1].method = "candidate_min_logft"
        /\ ChosenCand \in RetainedCands
        /\ \A k \in RetainedCands : candidates[ChosenCand].logft <= candidates[k].logft
        /\ audit_rows[1].logft = Num(candidates[ChosenCand].logft)
        /\ audit_rows[1].br_pct_used = Txt_empty

\* C14 witness: a candidate of the key with a known percentage and a smaller
\* logft was not retained for its mode; the retained one was chosen by logft.
C14_Witness ==
    /\ pc = "chosen" /\ audit_rows[1].method = "candidate_min_logft"
    /\ \E k \in KeyCands \ RetainedCands :
          /\ notna(candidates[k].br_pct)
          /\ candidates[k].logft < candidates[ChosenCand].logft

\* C15 (as claimed): when retained candidates tie on every comparison key
\* (percentage and logft), the one that comes first in the load order is the
\* one reported.  The sort of line 314 has one key and is not stable, so in
\* step 5 any of the tied candidates may be reported.
C15_StableCascade ==
    ByCandidate =>
        \A k \in RetainedCands :
            (BrKey(k) = BrKey(ChosenCand) /\ candidates[k].logft = candidates[ChosenCand].logft)
            => ChosenCand <= k

\* C16: choose_logft_for_row returns no value with method `missing` exactly
\* if no override row and no candidate row has the primary row's (Z, A),
\* and then source, cand_mode, br_pct_used and note are empty.
C16_MissingIffNoRow ==
    pc = "chosen" =>
        /\ audit_rows[1].method = "missing" <=> (KeyCands = {} /\ ~OverrideForKey)
        /\ audit_rows[1].logft = NaN <=> audit_rows[1].method = "missing"
        /\ audit_rows[1].method = "missing" =>
              /\ audit_rows[1].source = Txt_empty
              /\ audit_rows[1].cand_mode = Txt_empty
              /\ audit_rows[1].br_pct_used = Txt_empty
              /\ audit_rows[1].note = Txt_empty

\* C16 witness: both frames have rows, none of the primary row's key (one
\* shares its Z), and the call returned `missing`.
C16_Witness ==
    /\ pc = "chosen"
    /\ audit_rows[1].method = "missing"
    /\ \E k \in 1..Len(candidates) : candidates[k].Z = beta[1].Z
    /\ overrides # <<>>

SourcesLoaded == pc \in {"loop", "write_audit", "exit"} \/ (pc = "done" /\ PassedInputChecks)

\* C18 (as claimed): in every run no primary row is processed before the
\* sources are loaded, nothing is written before every primary row was
\* processed, a run that ends otherwise than with code 0 or 3 has written
\* neither the table nor the audit, and the table is never left written
\* without the audit.  On a table of no rows the code writes the table and
\* then raises KeyError sorting the column-less audit frame (line 425).
C18_OutputsOnlyAtEnd ==
    /\ (i > 0 \/ audit_rows # <<>>) => SourcesLoaded
    /\ h.wrote # <<>> => (SourcesLoaded /\ i = Len(beta) /\ Len(audit_rows) = Len(beta))
    /\ (pc = "done" /\ exitCode \notin {"0", "3"}) => h.wrote = <<>>
    /\ (pc \in {"exit", "done"} /\ WroteBeta) => WroteAudit

\* the rows whose logft the run has assigned
AssignedRows == {h.assigned[a] : a \in 1..Len(h.assigned)}

\* frame `after` is frame `before` but for logft values: as many rows, in
\* the same order, with the same Z, A, mode and tau_s
SameButLogft(before, after) ==
    /\ Len(after) = Len(before)
    /\ \A k \in 1..Len(before) : after[k] = [before[k] EXCEPT !.logft = after[k].logft]

\* C19: a run changes nothing in the primary table except logft values: the
\* frame in memory and the table the run writes have the rows of the table
\* the run found, in their order, with the same values in every other
\* column, and the same columns (logft added when it was not there); until
\* the run writes, the file is as it was; a row's logft is assigned at most
\* once in a run, and an unassigned row keeps the value it had.  (Values are
\* compared as read from the file: the text of a number may be written in
\* another form.)
C19_OnlyLogftChanges ==
    /\ beta # <<>> =>
          /\ SameButLogft(StartFrame, beta)
          /\ \A k \in 1..Len(beta) : k \notin AssignedRows => beta[k].logft = StartFrame[k].logft
    /\ \A a, b \in 1..Len(h.assigned) : a # b => h.assigned[a] # h.assigned[b]
    /\ IF WroteBeta
       THEN /\ SameButLogft(StartFrame, DiskFrame)
            /\ betaFile.cols = h.start.cols \cup {"logft"}
       ELSE betaFile = h.start

\* C19 witness: a finished run assigned the logft of a row and wrote the
\* table; the row's tau_s, a whole number in a column with a decimal, was
\* written in another form and reads as the same value.
C19_Witness ==
    /\ pc = "done" /\ WroteBeta
    /\ \E k \in AssignedRows :
          /\ h.start.rows[k].tau_s = Txt_5
          /\ betaFile.rows[k].tau_s # Txt_5
          /\ DiskFrame[k].tau_s = StartFrame[k].tau_s
          /\ DiskFrame[k].logft # StartFrame[k].logft

\* string x occurs in string c: c is some text, then x, then some text
Contains(c, x) == \E a \in 0..Len(c) : \E b \in a..Len(c) : SubSeq(c, a + 1, b) = x

\* the score the claim gives to a primary and a candidate mode, both
\* already trimmed and lower-cased
ClaimedScore(b, c) ==
    IF b # Txt_empty /\ Contains(c, b) THEN 2
    ELSE IF \/ b = Txt_ec /\ Contains(c, Txt_ec)
            \/ b = Txt_betap /\ (Contains(c, Txt_betap) \/ Contains(c, Txt_ec))
            \/ b = Txt_betam /\ Contains(c, Txt_betam)
         THEN 1
    ELSE 0

NoPrimaryMode == Strip(h.start.rows[1].mode) = Txt_empty

\* the primary row was processed, and a candidate was chosen for it
RowProcessed == Len(audit_rows) = 1
CandidateChosen ==
    RowProcessed /\ audit_rows[1].method \in {"candidate_highest_br", "candidate_min_logft"}

\* candidate c is ahead of every candidate of the key by percentage (unknown
\* last), then logft
FirstByBrThenLogft(c) ==
    \A k \in KeyCands :
        /\ BrKey(k) <= BrKey(c)
        /\ BrKey(k) = BrKey(c) => candidates[c].logft <= candidates[k].logft

\* C21 (as claimed): for a primary row with no mode (empty or blank mode
\* cell) every candidate of its key scores 0, and the candidate chosen is the
\* first of all candidates of the key by percentage, then logft, whatever the
\* candidates' modes are.  An empty mode cell of the primary table is read as
\* a missing value and line 372 makes the text "nan" of it, which scores 2
\* against a candidate whose empty mode cell line 159 turned into "nan".
C21_NoModeNoFilter ==
    (NoPrimaryMode /\ CandidateChosen) =>
        /\ \A k \in KeyCands : ScoreOf(k) = 0
        /\ \E c \in KeyCands :
              /\ audit_rows[1].logft = Num(candidates[c].logft)
              /\ audit_rows[1].source = candidates[c].source
              /\ audit_rows[1].cand_mode = candidates[c].mode
              /\ FirstByBrThenLogft(c)

\* a cell holds a number, or a text that reads as one
CellParses(c) == c.t \in {"num", "int"} \/ (c.t = "str" /\ IsNumText(c.s))

\* Z, A and logft of a raw source row parse
RowParses(r) == CellParses(r.Z) /\ CellParses(r.A) /\ CellParses(r.logft)

\* the rows of the source files, in load order, and the rows of the
\* overrides file
RawCandidates == _read_csvs(logftDir.files).rows
RawOverrides == overridesFile.rows

\* a raw row whose Z and A read as the key (Z, A) of the primary row
RawHasKey(r) ==
    CellParses(r.Z) /\ CellParses(r.A)
    /\ float(r.Z) \div 10 = beta[1].Z /\ float(r.A) \div 10 = beta[1].A

\* a frame has, in their order, the rows of `raw` that parse, with their
\* logft and their key
KeepsParsingRows(frame, raw) ==
    LET kept == SelectSeq(raw, RowParses)
    IN  /\ Len(frame) = Len(kept)
        /\ \A k \in 1..Len(kept) :
              /\ frame[k].logft = float(kept[k].logft)
              /\ frame[k].Z = float(kept[k].Z) \div 10
              /\ frame[k].A = float(kept[k].A) \div 10

\* C22: a candidate or override row whose Z, A or logft does not parse is
\* dropped without an error (a run ends with an exception only if a key is
\* fractional, C23) and the rows that parse stay, in their order; the row
\* processed is resolved from the rows that parse alone: by the first
\* parsing override row of its key if there is one, else by a parsing
\* candidate row of its key, else it is missing.
C22_BadRowsDropped ==
    /\ pc = "done" =>
          /\ exitCode \in {"0", "3", "TypeError"}
          /\ exitCode = "TypeError" =>
                \E k \in 1..Len(RawCandidates) :
                    \/ IsFractional(to_numeric(RawCandidates[k].Z))
                    \/ IsFractional(to_numeric(RawCandidates[k].A))
    /\ SourcesLoaded =>
          /\ KeepsParsingRows(candidates, RawCandidates)
          /\ KeepsParsingRows(overrides, RawOverrides)
    /\ (RowProcessed /\ audit_rows[1].method # "kept_existing") =>
          LET ovs == SelectSeq(RawOverrides, LAMBDA r : RowParses(r) /\ RawHasKey(r))
              cds == SelectSeq(RawCandidates, LAMBDA r : RowParses(r) /\ RawHasKey(r))
          IN  IF ovs # <<>>
              THEN /\ audit_rows[1].method = "override"
                   /\ audit_rows[1].logft = Num(float(ovs[1].logft))
              ELSE IF cds # <<>>
              THEN /\ audit_rows[1].method \in {"candidate_highest_br", "candidate_min_logft"}
                   /\ \E k \in 1..Len(cds) : audit_rows[1].logft = Num(float(cds[k].logft))
              ELSE audit_rows[1].method = "missing"

\* C22 witness: the source file has rows whose logft, Z and A do not parse
\* before two rows of the key that parse; the overrides file has a row of the
\* key whose logft does not parse before one that parses; the run ended with
\* code 0 and the row was resolved by that second override row.
C22_Witness ==
    /\ pc = "done" /\ exitCode = "0"
    /\ logftDir.files = <<File_bad>>
    /\ Len(candidates) = 2
    /\ Len(RawOverrides) = 2 /\ ~RowParses(RawOverrides[1]) /\ RawHasKey(RawOverrides[1])
    /\ Len(overrides) = 1
    /\ audit_rows[1].method = "override"
    /\ audit_rows[1].logft = Num(44)

\* C23 (as claimed): every candidate and override row whose Z, A and logft
\* parse is kept and keyed by Z and A truncated to integers, a fractional Z
\* or A included, candidates and overrides alike, and such a row never ends
\* the run with an exception.  Line 216 truncates an override's Z = 1.5 to
\* 1, but for candidates astype("Int64") of line 149 refuses 1.5 with a
\* TypeError.
C23_FractionalKeysTruncated ==
    /\ pc = "done" => exitCode \in {"0", "3"}
    /\ pc \in {"read_overrides", "loop", "write_audit", "exit"} =>
          KeepsParsingRows(candidates, RawCandidates)
    /\ pc \in {"loop", "write_audit", "exit"} =>
          KeepsParsingRows(overrides, RawOverrides)

\* C24: for every candidate row after normalization: if the row's
\* percentage is known (its br_pct cell parses), br_pct is that value,
\* whatever the fraction is; if the percentage is unknown and the fraction
\* (br) is known, br_pct is the fraction times 100; if both are unknown,
\* br_pct is unknown.
C24_BranchingPercent ==
    SourcesLoaded =>
        LET kept == SelectSeq(RawCandidates, RowParses)
        IN  /\ Len(candidates) = Len(kept)
            /\ \A k \in 1..Len(kept) :
                  IF CellParses(kept[k].br_pct)
                  THEN candidates[k].br_pct = Num(float(kept[k].br_pct))
                  ELSE IF CellParses(kept[k].br)
                  THEN candidates[k].br_pct = Num(float(kept[k].br) * 100)
                  ELSE candidates[k].br_pct = NaN

\* C24 witness: the file with both columns was normalized: 80 beside the
\* fraction 0.2 stayed 80, the fraction 0.9 alone became 90, neither stayed
\* unknown, an unparsable percentage beside 0.5 became 50; without an
\* override the row of 90 was chosen.
C24_Witness ==
    /\ pc = "done"
    /\ logftDir.files = <<File_pct>>
    /\ candidates[1].br_pct = Num(800) /\ RawCandidates[1].br = Num(2)
    /\ candidates[2].br_pct = Num(900)
    /\ candidates[3].br_pct = NaN
    /\ candidates[4].br_pct = Num(500)
    /\ audit_rows[1].method = "candidate_highest_br"
    /\ audit_rows[1].br_pct_used = <<"9", "0">>

\* a raw row supplies a source: its source cell holds a text that is not blank
SuppliesSource(r) == r.source.t = "str" /\ Strip(r.source.s) # Txt_empty

\* the records of a frame have the sources the claim gives them: the row's
\* own source, trimmed, when it supplies one, else the path of its file
SourcesAsClaimed(frame, raw, path(_)) ==
    LET kept == SelectSeq(raw, RowParses)
    IN  /\ Len(frame) = Len(kept)
        /\ \A k \in 1..Len(kept) :
              /\ frame[k].source # Txt_empty
              /\ frame[k].source = IF SuppliesSource(kept[k]) THEN Strip(kept[k].source.s)
                                   ELSE path(kept[k])

\* the path of the file a raw candidate row came from, and of the overrides
\* file
CandidatePath(r) == r.__file__
OverridePath(r) == overridesFile.path

\* C25 (as claimed): every normalized candidate and override record has a
\* non-empty source: the row's explicit source, trimmed, when the row
\* supplies one, otherwise the path of the file the row came from, also when
\* only some of the files loaded have a source column.  A source cell that is
\* empty, or absent because the row's file has no source column while
\* another file has one, is a missing value that astype(str) (lines 177,
\* 225) turns into the text "nan", which is not the empty string the
\* fallback of lines 179 and 226 looks for.
C25_SourceNeverEmpty ==
    /\ pc \in {"read_overrides", "loop", "write_audit", "exit"} =>
          SourcesAsClaimed(candidates, RawCandidates, CandidatePath)
    /\ pc \in {"loop", "write_audit", "exit"} =>
          SourcesAsClaimed(overrides, RawOverrides, OverridePath)

\* a raw row has no mode: its mode cell is missing (empty, or its file has no
\* mode column) or blank
NoMode(r) == r.mode.t = "nan" \/ (r.mode.t = "str" /\ Strip(r.mode.s) = Txt_empty)

\* the records made of the rows of `raw` without a mode have the empty mode
EmptyModeKept(frame, raw) ==
    LET kept == SelectSeq(raw, RowParses)
    IN  /\ Len(frame) = Len(kept)
        /\ \A k \in 1..Len(kept) : NoMode(kept[k]) => frame[k].mode = Txt_empty

\* C26 (as claimed): a candidate, override or primary record with no mode
\* (no mode column, or an empty or blank mode cell) has the empty string as
\* its mode wherever it is used: in the normalized frames that mode scoring
\* reads, and in the audit's beta_mode and cand_mode.  An empty cell of a
\* mode column is a missing value, and astype(str) (lines 159, 221) and str()
\* (line 372) make the text "nan" of it.
C26_MissingModeIsEmpty ==
    /\ pc \in {"read_overrides", "loop", "write_audit", "exit"} =>
          EmptyModeKept(candidates, RawCandidates)
    /\ pc \in {"loop", "write_audit", "exit"} =>
          EmptyModeKept(overrides, RawOverrides)
    /\ RowProcessed =>
          /\ NoPrimaryMode => audit_rows[1].beta_mode = Txt_empty
          /\ audit_rows[1].cand_mode # Txt_nan

\* C27: when a candidate is chosen, the audit's logft, source and cand_mode
\* are those of one candidate row of the primary row's key; with method
\* candidate_highest_br the percentage of that row is known and br_pct_used
\* is that percentage, not empty; br_pct_used is empty for
\* candidate_min_logft, override, missing and kept_existing.
C27_AuditFromOneRow ==
    \A k \in 1..Len(audit_rows) :
        LET a == audit_rows[k] IN
        /\ a.method \in {"candidate_highest_br", "candidate_min_logft"} =>
              \E c \in 1..Len(candidates) :
                  /\ HasKey(candidates[c], beta[k].Z, beta[k].A)
                  /\ a.logft = Num(candidates[c].logft)
                  /\ a.source = candidates[c].source
                  /\ a.cand_mode = candidates[c].mode
                  /\ a.method = "candidate_highest_br" =>
                        /\ notna(candidates[c].br_pct)
                        /\ a.br_pct_used = Format6g(candidates[c].br_pct.n)
                        /\ a.br_pct_used # Txt_empty
        /\ a.method \in {"candidate_min_logft", "override", "missing", "kept_existing"} =>
              a.br_pct_used = Txt_empty

\* C27 witness: a finished run kept one row and chose for the other, by
\* percentage, the second candidate of its key: the audit has that row's
\* logft 4.7, mode beta- and percentage 80, where the first candidate of the
\* key has 6.1, EC and 20.
C27_Witness ==
    /\ pc = "done" /\ Len(audit_rows) = 2
    /\ audit_rows[1].method = "kept_existing"
    /\ audit_rows[2].method = "candidate_highest_br"
    /\ audit_rows[2].logft = Num(47)
    /\ audit_rows[2].cand_mode = Txt_betam
    /\ audit_rows[2].br_pct_used = <<"8", "0">>
    /\ candidates[1].logft = 61 /\ candidates[1].mode = Txt_EC
    /\ HasKey(candidates[1], beta[2].Z, beta[2].A)

\* some loaded override or candidate row of the key (Z, A) has the logft v
LogftInSources(Z, A, v) ==
    \/ \E o \in 1..Len(overrides) : HasKey(overrides[o], Z, A) /\ Num(overrides[o].logft) = v
    \/ \E c \in 1..Len(candidates) : HasKey(candidates[c], Z, A) /\ Num(candidates[c].logft) = v

\* C28: every logft a run assigns to a primary row, and then writes for it,
\* is the logft of some loaded override or candidate row with that row's
\* (Z, A): never a value of another key's rows or one no source has.
C28_WrittenFromSources ==
    \A k \in AssignedRows :
        /\ LogftInSources(beta[k].Z, beta[k].A, beta[k].logft)
        /\ WroteBeta => Num(float(DiskFrame[k].logft)) = beta[k].logft

\* C28 witness: a finished run wrote 4.7 for a row of (1, 1) from a
\* candidate of that key, while the sources also hold a smaller logft for
\* (1, 2) and a larger one for (1, 1).
C28_Witness ==
    /\ pc = "done" /\ WroteBeta
    /\ \E k \in AssignedRows :
          /\ HasKey(beta[k], 1, 1)
          /\ DiskFrame[k].logft = Num(47)
          /\ audit_rows[k].method = "candidate_highest_br"
          /\ \E c \in 1..Len(candidates) : HasKey(candidates[c], 1, 2) /\ candidates[c].logft < 47
          /\ \E c \in 1..Len(candidates) : HasKey(candidates[c], 1, 1) /\ candidates[c].logft > 47

\* C29: after a run that wrote its outputs, for every primary row whose
\* audit method is not `missing` the audit's logft is the row's logft in the
\* written table; an audit record with method `missing` has an empty logft,
\* also when under --force the table keeps the row's earlier value.
C29_AuditMatchesTable ==
    (pc \in {"exit", "done"} /\ WroteBeta /\ WroteAudit) =>
        \A k \in 1..Len(audit_rows) :
            IF audit_rows[k].method = "missing"
            THEN audit_rows[k].logft = NaN
            ELSE /\ has_cur(DiskFrame[k].logft)
                 /\ audit_rows[k].logft = Num(float(DiskFrame[k].logft))

\* C29 witness: a forced run found nothing for a row that came with 5.3: the
\* audit says `missing` with an empty logft and the written table still has
\* 5.3.
C29_Witness ==
    /\ pc = "done" /\ force /\ WroteBeta /\ WroteAudit
    /\ \E k \in 1..Len(audit_rows) :
          /\ audit_rows[k].method = "missing"
          /\ audit_rows[k].logft = NaN
          /\ has_cur(StartFrame[k].logft)
          /\ DiskFrame[k].logft = Num(53)

====
